---- MODULE Spec2Model ----
(***************************************************************************)
(* Verification model of the AIVoiceTranslator UI test scripts:            *)
(*   - the mock MediaRecorder injected by python_full_e2e_test.py,         *)
(*   - run_tests of playwright_ui_tests.py,                                *)
(*   - run_tests of backup/testing/selenium_ui_tests.py (unittest),        *)
(*   - run_tests of remote_selenium_tests.py (unittest, remote grid),      *)
(*   - run_e2e_test of python_full_e2e_test.py.                            *)
(* The scripts are independent programs: Init picks one of them and the    *)
(* actions of the others stay disabled. "release" is not a script: it      *)
(* calls the acquire and release functions of the scripts (setUpClass,     *)
(* tearDownClass, start_server, stop_server) on their own, in any order.   *)
(* "wait" is not a script either: it makes one call of a waiting function  *)
(* of the test classes (a WebDriverWait, element_exists, or the sleep of   *)
(* test_04) against a page whose condition becomes true at a chosen time.  *)
(* "timer" follows one start() of the mock recorder on the page's clock.   *)
(***************************************************************************)
EXTENDS Integers, Sequences, FiniteSets, TLC

(***************************************************************************)
(* Bounds of the model.                                                    *)
(***************************************************************************)
\* number of setInterval handles one mock recorder may allocate
MaxTimers == 3
\* cap on each notification counter of the mock recorder
MaxEvents == 2
\* cap on the driver.quit() calls made on one class by the release functions
MaxQuits == 2
\* cap on the server processes start_server may create
MaxServers == 2
\* the time in ms a quick and a slow evaluation of a wait condition take
\* (one round trip to the browser)
QuickEval == 10
SlowEval == 300
\* how far the page's clock runs, in steps of ClockStep
MaxSteps == 40
\* how many steps late the page may run a due interval callback
MaxLag == 1

(***************************************************************************)
(* Program constants.                                                      *)
(***************************************************************************)
\* `timeslice || 1000`
DefaultInterval == 1000
\* the poll interval in ms of a WebDriverWait built without poll_frequency
POLL_FREQUENCY == 500
\* element_exists(self, selector, timeout=5), in ms
ElementTimeout == 5000
\* WebDriverWait(self.driver, 10), in ms
TitleTimeout == 10000
\* time.sleep(1) of test_04_recording_buttons, in ms
ButtonSleep == 1000
\* cls.driver.implicitly_wait(10) of the remote class, in ms
ImplicitWait == 10000

VARIABLES
    script,        \* which program runs
    \* ---- MockMediaRecorder (one instance)
    state,         \* this.state
    timer,         \* this.timer (0 is null)
    liveTimers,    \* the page's live setInterval handles: [id, interval]
    nextTimerId,   \* last handle setInterval returned
    handlers,      \* which of onstart/onstop/ondataavailable are not null
    onstartN,      \* onstart calls
    onstopN,       \* onstop calls
    dataN,         \* ondataavailable calls
    lastOp,        \* the last call on the recorder and the state it found
    \* ---- playwright_ui_tests.py: run_tests
    pwPc,          \* position in run_tests
    results,       \* the results dict
    pwPlaywright,  \* the async_playwright() context: "none", "started", "stopped"
    pwBrowser,     \* the launched browser: "none", "open", "closed"
    pwReleaseN,    \* how many times the browser was torn down
    pwExc,         \* the exception propagating out of the with-block, or "none"
    pwStarted,     \* names of the test functions invoked, in order
    pwHist,        \* what each returned test function did, in order
    pwReport,      \* playwright_test_results.json: <<>> until written, then <<results>>
    pwExitCode,    \* the process exit code, -1 while running
    \* ---- backup/testing/selenium_ui_tests.py and remote_selenium_tests.py:
    \* ---- run_tests under unittest (one of the two scripts runs)
    sePc,          \* position in run_tests
    seDriver,      \* cls.driver: "unset", "live", "quit"
    seAttempts,    \* the driver set-ups setUpClass tried, with their outcomes
    seQuitN,       \* calls of cls.driver.quit()
    seResult,      \* the unittest TestResult
    seStarted,     \* names of the test methods started, in order
    seHist,        \* what each finished test method did, in order
    seReport,      \* selenium_test_results.json: <<>> until written
    seExitCode,    \* the process exit code, -1 while running
    \* ---- python_full_e2e_test.py: run_e2e_test
    e2ePc,          \* position in run_e2e_test
    SERVER_PROCESS, \* the global process slot: 0 is None, else the process
    spawned,        \* processes subprocess.Popen created
    signalled,      \* processes terminate()/killpg was called on
    driver,         \* the local driver: "None", "live", "quit"
    e2eQuitN,       \* calls of driver.quit()
    e2eExc,         \* the exception propagating, or "none"
    e2eExitCode,    \* the process exit code, -1 while running
    page,           \* the browser page of run_e2e_test: "none", "open",
                    \* "closed", or "unknown" after a driver.quit() that raised
    mock,           \* whether inject_audio_mock replaced window.MediaRecorder
    \* ---- the release functions, called on their own in any order
    relDriver,      \* cls.driver of each test class: "unset", "live", "quit"
    relQuitN,       \* calls of cls.driver.quit(), per class
    relLast,        \* the last call: function, class, state found, raised or not
    \* ---- one call of a waiting function; times in ms since the call
    wPc,            \* "idle", "eval", "sleep", "sleeping", "done"
    wFn,            \* the function called, "none" before the call
    wCls,           \* the test class whose driver is waited on
    wTimeout,       \* the timeout of the call
    wTrueAt,        \* when the page makes the condition true, or Never
    wEvalTime,      \* how long one evaluation of the condition takes
    now,            \* the clock
    wPolls,         \* evaluations of the condition so far
    wResult,        \* what the call returned or raised, "none" while it runs
    wCaught,        \* the exception element_exists caught, or "none"
    \* ---- one start() of the mock recorder on the page's clock; times in ms
    tmPc,           \* "idle", "armed", "cleared"
    tmNow,          \* the page's clock
    tmArg,          \* the timeslice start() was called with (0: omitted)
    tmStart,        \* when start() was called
    tmDue,          \* when the interval callback is due next
    tmHandler,      \* whether ondataavailable is set
    tmTicks,        \* runs of the interval callback
    tmData          \* dataavailable events delivered

recVars == <<state, timer, liveTimers, nextTimerId, handlers, onstartN, onstopN,
             dataN, lastOp>>

pwVars == <<pwPc, results, pwPlaywright, pwBrowser, pwReleaseN, pwExc, pwStarted,
            pwHist, pwReport, pwExitCode>>

seVars == <<sePc, seDriver, seAttempts, seQuitN, seResult, seStarted, seHist, seReport,
            seExitCode>>

e2eVars == <<e2ePc, SERVER_PROCESS, spawned, signalled, driver, e2eQuitN, e2eExc,
             e2eExitCode, page, mock>>

relVars == <<relDriver, relQuitN, relLast>>

waitVars == <<wPc, wFn, wCls, wTimeout, wTrueAt, wEvalTime, now, wPolls, wResult,
              wCaught>>

tmVars == <<tmPc, tmNow, tmArg, tmStart, tmDue, tmHandler, tmTicks, tmData>>

vars == <<script, recVars, pwVars, seVars, e2eVars, relVars, waitVars, tmVars>>

\* what the actions of one program leave alone
notRec == <<script, pwVars, seVars, e2eVars, relVars, waitVars, tmVars>>
notPw == <<script, recVars, seVars, e2eVars, relVars, waitVars, tmVars>>
notSe == <<script, recVars, pwVars, e2eVars, relVars, waitVars, tmVars>>
notE2e == <<script, recVars, pwVars, seVars, relVars, waitVars, tmVars>>
notRel == <<script, recVars, pwVars, seVars, e2ePc, driver, e2eQuitN, e2eExc,
            e2eExitCode, page, mock, waitVars, tmVars>>
notWait == <<script, recVars, pwVars, seVars, e2eVars, relVars, tmVars>>
notTm == <<script, recVars, pwVars, seVars, e2eVars, relVars, waitVars>>

Scripts == {"recorder", "playwright", "selenium", "remote", "e2e", "release", "wait",
            "timer"}

\* the two scripts that run a unittest.TestCase class
UnittestScripts == {"selenium", "remote"}

\* the timeslice arguments tried: 0 stands for an omitted (undefined) one
Timeslices == {0, 250}

HandlerNames == {"onstart", "onstop", "ondataavailable"}

NoOp == [op |-> "none", from |-> "inactive"]

(***************************************************************************)
(* MockMediaRecorder                                                       *)
(***************************************************************************)
\* constructor(stream, options)
RecorderInit ==
    /\ state = "inactive"
    /\ timer = 0
    /\ liveTimers = {}
    /\ nextTimerId = 0
    /\ handlers = {}
    /\ onstartN = 0
    /\ onstopN = 0
    /\ dataN = 0
    /\ lastOp = NoOp

\* the mock recorder runs on its own, or in the page of run_e2e_test once
\* inject_audio_mock has replaced window.MediaRecorder and while the page lives
RecorderRuns ==
    \/ script = "recorder"
    \/ (script = "e2e" /\ mock /\ page \in {"open", "unknown"})

\* an interval twice as long as the one asked for
IntervalOfDoubled(timeslice) == 2 * (IF timeslice = 0 THEN DefaultInterval ELSE timeslice)

\* const interval = timeslice || 1000
IntervalOf(timeslice) == IF timeslice = 0 THEN DefaultInterval ELSE timeslice

\* clearInterval(id)
ClearInterval(live, id) == {t \in live : t.id # id}

\* the page assigns recorder.onstart / onstop / ondataavailable
setHandler(h) ==
    /\ RecorderRuns
    /\ h \notin handlers
    /\ handlers' = handlers \cup {h}
    /\ UNCHANGED notRec
    /\ UNCHANGED <<state, timer, liveTimers, nextTimerId, onstartN,
                   onstopN, dataN, lastOp>>

\* start(timeslice)
start(timeslice) ==
    /\ RecorderRuns
    /\ nextTimerId < MaxTimers
    /\ ("onstart" \in handlers) => onstartN < MaxEvents
    /\ lastOp' = [op |-> "start", from |-> state]
    /\ state' = "recording"
    /\ onstartN' = IF "onstart" \in handlers THEN onstartN + 1 ELSE onstartN
    /\ nextTimerId' = nextTimerId + 1
    /\ timer' = nextTimerId + 1
    /\ liveTimers' = liveTimers \cup
           {[id |-> nextTimerId + 1, interval |-> IntervalOf(timeslice)]}
    /\ UNCHANGED notRec
    /\ UNCHANGED <<handlers, onstopN, dataN>>

\* a stop() that leaves its interval timer armed
stopKeepsTimer ==
    /\ RecorderRuns
    /\ lastOp' = [op |-> "stop", from |-> state]
    /\ IF state = "inactive"
       THEN UNCHANGED <<state, timer, onstopN>>
       ELSE /\ ("onstop" \in handlers) => onstopN < MaxEvents
            /\ state' = "inactive"
            /\ timer' = 0
            /\ onstopN' = IF "onstop" \in handlers THEN onstopN + 1 ELSE onstopN
    /\ UNCHANGED notRec
    /\ UNCHANGED <<liveTimers, handlers, nextTimerId, onstartN, dataN>>

\* a stop() without the early return on 'inactive'
stopUnguarded ==
    /\ RecorderRuns
    /\ ("onstop" \in handlers) => onstopN < MaxEvents
    /\ lastOp' = [op |-> "stop", from |-> state]
    /\ state' = "inactive"
    /\ liveTimers' = IF timer # 0 THEN ClearInterval(liveTimers, timer) ELSE liveTimers
    /\ timer' = 0
    /\ onstopN' = IF "onstop" \in handlers THEN onstopN + 1 ELSE onstopN
    /\ UNCHANGED notRec
    /\ UNCHANGED <<handlers, nextTimerId, onstartN, dataN>>

\* stop()
stop ==
    /\ RecorderRuns
    /\ lastOp' = [op |-> "stop", from |-> state]
    /\ IF state = "inactive"
       THEN UNCHANGED <<state, timer, liveTimers, onstopN>>
       ELSE /\ ("onstop" \in handlers) => onstopN < MaxEvents
            /\ state' = "inactive"
            /\ liveTimers' = IF timer # 0 THEN ClearInterval(liveTimers, timer)
                                          ELSE liveTimers
            /\ timer' = 0
            /\ onstopN' = IF "onstop" \in handlers THEN onstopN + 1 ELSE onstopN
    /\ UNCHANGED notRec
    /\ UNCHANGED <<handlers, nextTimerId, onstartN, dataN>>

\* pause()
pause ==
    /\ RecorderRuns
    /\ lastOp' = [op |-> "pause", from |-> state]
    /\ state' = "paused"
    /\ UNCHANGED notRec
    /\ UNCHANGED <<timer, liveTimers, nextTimerId, handlers, onstartN,
                   onstopN, dataN>>

\* resume()
resume ==
    /\ RecorderRuns
    /\ lastOp' = [op |-> "resume", from |-> state]
    /\ state' = "recording"
    /\ UNCHANGED notRec
    /\ UNCHANGED <<timer, liveTimers, nextTimerId, handlers, onstartN,
                   onstopN, dataN>>

\* one firing of the setInterval callback armed by start()
timerFires(t) ==
    /\ RecorderRuns
    /\ t \in liveTimers
    /\ ("ondataavailable" \in handlers) => dataN < MaxEvents
    /\ lastOp' = [op |-> "tick", from |-> state]
    /\ dataN' = IF "ondataavailable" \in handlers THEN dataN + 1 ELSE dataN
    /\ UNCHANGED notRec
    /\ UNCHANGED <<state, timer, liveTimers, nextTimerId, handlers,
                   onstartN, onstopN>>

RecorderNext ==
    \/ \E h \in HandlerNames : setHandler(h)
    \/ \E ts \in Timeslices : start(ts)
    \/ stop
    \/ pause
    \/ resume
    \/ \E t \in liveTimers : timerFires(t)

(***************************************************************************)
(* playwright_ui_tests.py                                                  *)
(***************************************************************************)
\* the tests list of run_tests, in the order it is written
tests ==
    <<"test_teacher_interface", "test_student_interface", "test_language_selection",
      "test_recording_buttons", "test_transcription_display">>

\* the place of a test name in the alphabetical order of all the names
AlphaRank(name) ==
    CASE name = "test_01_teacher_interface"     -> 1
      [] name = "test_02_student_interface"     -> 2
      [] name = "test_03_language_selection"    -> 3
      [] name = "test_04_recording_buttons"     -> 4
      [] name = "test_05_transcription_display" -> 5
      [] name = "test_language_selection"       -> 6
      [] name = "test_recording_buttons"        -> 7
      [] name = "test_student_interface"        -> 8
      [] name = "test_teacher_interface"        -> 9
      [] name = "test_transcription_display"    -> 10

RECURSIVE SortNames(_)
\* sorted(names)
SortNames(S) ==
    IF S = {}
    THEN <<>>
    ELSE LET m == CHOOSE x \in S : \A y \in S : AlphaRank(x) <= AlphaRank(y)
         IN <<m>> \o SortNames(S \ {m})

Range(f) == {f[i] : i \in DOMAIN f}

\* What a test function did: res is its return value ("True", "False") or the
\* exception it raised; cause is what went wrong on the page ("none",
\* "assertion", "timeout", "fault", "interrupt"); shot says whether a screenshot
\* was requested and shotFault whether a screenshot call itself raised.
Did(res, cause, shot, shotFault) ==
    [res |-> res, cause |-> cause, shot |-> shot, shotFault |-> shotFault]

\* a KeyboardInterrupt / CancelledError delivered while the step is awaiting
Interrupted == Did("Interrupt", "interrupt", FALSE, FALSE)

\* what the page can do to a step: "ok" or the call that goes wrong
PageEvents ==
    {"ok", "goto_fault", "query_fault", "elem_missing", "value_mismatch",
     "script_fault", "action_timeout", "shot_fault", "wait_timeout", "wait_fault",
     "wait_timeout_errshot_fault", "interrupt"}

\* test_teacher_interface(page)
test_teacher_interface(ev) ==
    CASE ev = "interrupt"    -> Interrupted
      [] ev = "goto_fault"   -> Did("Error", "fault", FALSE, FALSE)
      [] ev = "query_fault"  -> Did("Error", "fault", FALSE, FALSE)
      [] ev = "shot_fault"   -> Did("Error", "none", TRUE, TRUE)
      [] ev = "elem_missing" -> Did("AssertionError", "assertion", TRUE, FALSE)
      [] OTHER               -> Did("True", "none", TRUE, FALSE)

\* test_student_interface(page)
test_student_interface(ev) ==
    CASE ev = "interrupt"    -> Interrupted
      [] ev = "goto_fault"   -> Did("Error", "fault", FALSE, FALSE)
      [] ev = "query_fault"  -> Did("Error", "fault", FALSE, FALSE)
      [] ev = "shot_fault"   -> Did("Error", "none", TRUE, TRUE)
      [] ev = "elem_missing" -> Did("AssertionError", "assertion", TRUE, FALSE)
      [] OTHER               -> Did("True", "none", TRUE, FALSE)

\* test_language_selection(page): select_option waits for the selector itself
test_language_selection(ev) ==
    CASE ev = "interrupt"      -> Interrupted
      [] ev = "goto_fault"     -> Did("Error", "fault", FALSE, FALSE)
      [] ev = "action_timeout" -> Did("TimeoutError", "timeout", FALSE, FALSE)
      [] ev = "script_fault"   -> Did("Error", "fault", FALSE, FALSE)
      [] ev = "shot_fault"     -> Did("Error", "none", TRUE, TRUE)
      [] ev = "value_mismatch" -> Did("AssertionError", "assertion", TRUE, FALSE)
      [] OTHER                 -> Did("True", "none", TRUE, FALSE)

\* test_recording_buttons(page): a missing stop button makes
\* stop_button.get_attribute raise AttributeError; click waits for its selector
test_recording_buttons(ev) ==
    CASE ev = "interrupt"      -> Interrupted
      [] ev = "goto_fault"     -> Did("Error", "fault", FALSE, FALSE)
      [] ev = "elem_missing"   -> Did("Error", "fault", FALSE, FALSE)
      [] ev = "action_timeout" -> Did("TimeoutError", "timeout", FALSE, FALSE)
      [] ev = "shot_fault"     -> Did("Error", "none", TRUE, TRUE)
      [] ev = "value_mismatch" -> Did("AssertionError", "assertion", TRUE, FALSE)
      [] OTHER                 -> Did("True", "none", TRUE, FALSE)

\* test_transcription_display(page): the try block catches every Exception of
\* wait_for_selector and of the screenshot, takes the error screenshot and
\* returns False
test_transcription_display(ev) ==
    CASE ev = "interrupt"    -> Interrupted
      [] ev = "goto_fault"   -> Did("Error", "fault", FALSE, FALSE)
      [] ev = "script_fault" -> Did("Error", "fault", FALSE, FALSE)
      [] ev = "wait_timeout" -> Did("False", "timeout", TRUE, FALSE)
      [] ev = "wait_fault"   -> Did("False", "fault", TRUE, FALSE)
      [] ev = "shot_fault"   -> Did("False", "none", TRUE, TRUE)
      [] ev = "wait_timeout_errshot_fault" -> Did("Error", "timeout", TRUE, TRUE)
      [] OTHER               -> Did("True", "none", TRUE, FALSE)

\* test_func(page) for the entry (test_name, test_func) of tests
test_func(test_name, ev) ==
    CASE test_name = "test_teacher_interface"     -> test_teacher_interface(ev)
      [] test_name = "test_student_interface"     -> test_student_interface(ev)
      [] test_name = "test_language_selection"    -> test_language_selection(ev)
      [] test_name = "test_recording_buttons"     -> test_recording_buttons(ev)
      [] test_name = "test_transcription_display" -> test_transcription_display(ev)

\* the events that make a difference to a test function
EventsOf(test_name) ==
    {"ok", "interrupt"} \cup
    {ev \in PageEvents : test_func(test_name, ev) # test_func(test_name, "ok")}

\* d[k] = v on a dict kept in insertion order
DictSet(d, k, v) ==
    IF \E i \in DOMAIN d : d[i].name = k
    THEN [i \in DOMAIN d |-> IF d[i].name = k THEN [name |-> k] @@ v ELSE d[i]]
    ELSE Append(d, [name |-> k] @@ v)

\* results = {...}
PwInit ==
    /\ pwPc = "start"
    /\ results = [tests_run |-> 0, failures |-> 0, errors |-> 0, success |-> TRUE,
                  test_details |-> <<>>]
    /\ pwPlaywright = "none"
    /\ pwBrowser = "none"
    /\ pwReleaseN = 0
    /\ pwExc = "none"
    /\ pwStarted = <<>>
    /\ pwHist = <<>>
    /\ pwReport = <<>>
    /\ pwExitCode = -1

\* an `if not test_passed:` body that forgets results["success"] = False
RecordFailureKeepSuccess(r, test_name) ==
    [r EXCEPT !.failures = @ + 1,
              !.test_details = DictSet(@, test_name,
                  [status |-> "FAIL", message |-> "Test returned False"])]

\* the body of `if not test_passed:`
RecordFailure(r, test_name) ==
    [r EXCEPT !.failures = @ + 1,
              !.success = FALSE,
              !.test_details = DictSet(@, test_name,
                  [status |-> "FAIL", message |-> "Test returned False"])]

\* the body of `except Exception as e:`
RecordError(r, test_name, e) ==
    [r EXCEPT !.errors = @ + 1,
              !.success = FALSE,
              !.test_details = DictSet(@, test_name,
                  [status |-> "ERROR", message |-> e])]

\* a loop body that also enters a detail for a test that returned True
ClassifyRecordsPass(r, test_name, did) ==
    CASE did.res = "True"  ->
             [r EXCEPT !.test_details = DictSet(@, test_name,
                           [status |-> "PASS", message |-> "Test passed"])]
      [] did.res = "False" -> RecordFailure(r, test_name)
      [] OTHER             -> RecordError(r, test_name, did.res)

\* try: test_passed = await test_func(page) ... except Exception as e: ...
Classify(r, test_name, did) ==
    CASE did.res = "True"  -> r
      [] did.res = "False" -> RecordFailure(r, test_name)
      [] OTHER             -> RecordError(r, test_name, did.res)

\* await setup(); async with async_playwright() as p:
pw_enter(outcome) ==
    /\ script = "playwright"
    /\ UNCHANGED notPw
    /\ pwPc = "start"
    /\ IF outcome = "ok"
       THEN /\ pwPlaywright' = "started"
            /\ pwPc' = "launch"
            /\ UNCHANGED pwExitCode
       ELSE /\ pwPc' = "raised"
            /\ pwExitCode' = 1
            /\ UNCHANGED pwPlaywright
    /\ UNCHANGED <<results, pwBrowser, pwReleaseN, pwExc, pwStarted, pwHist, pwReport>>

\* browser = await p.chromium.launch(...); context = ...; page = ...
pw_launch(outcome) ==
    /\ script = "playwright"
    /\ UNCHANGED notPw
    /\ pwPc = "launch"
    /\ CASE outcome = "ok" ->
              /\ pwBrowser' = "open"
              /\ pwPc' = "loop"
              /\ UNCHANGED pwExc
         [] outcome = "launch_fault" ->
              /\ pwPc' = "exit"
              /\ pwExc' = "Error"
              /\ UNCHANGED pwBrowser
         [] outcome = "context_fault" ->
              /\ pwBrowser' = "open"
              /\ pwPc' = "exit"
              /\ pwExc' = "Error"
    /\ UNCHANGED <<results, pwPlaywright, pwReleaseN, pwStarted, pwHist, pwReport,
                   pwExitCode>>

\* the index of the next entry of tests the for loop takes
NextTest == Len(pwHist) + 1

\* a loop that walks the tests by name instead of by position in the list
TestAtSorted(i) == SortNames(Range(tests))[i]

\* the i-th (test_name, test_func) the for loop takes from tests
TestAt(i) == tests[i]

\* a loop that calls the next test function without awaiting the running one
pw_invokeWhileRunning ==
    /\ script = "playwright"
    /\ UNCHANGED notPw
    /\ pwPc \in {"loop", "step"}
    /\ Len(pwStarted) < Len(tests)
    /\ results' = [results EXCEPT !.tests_run = @ + 1]
    /\ pwStarted' = Append(pwStarted, TestAt(Len(pwStarted) + 1))
    /\ pwPc' = "step"
    /\ UNCHANGED <<pwPlaywright, pwBrowser, pwReleaseN, pwExc, pwHist, pwReport,
                   pwExitCode>>

\* for test_name, test_func in tests: results["tests_run"] += 1; call test_func
pw_invoke ==
    /\ script = "playwright"
    /\ UNCHANGED notPw
    /\ pwPc = "loop"
    /\ NextTest <= Len(tests)
    /\ results' = [results EXCEPT !.tests_run = @ + 1]
    /\ pwStarted' = Append(pwStarted, TestAt(NextTest))
    /\ pwPc' = "step"
    /\ UNCHANGED <<pwPlaywright, pwBrowser, pwReleaseN, pwExc, pwHist, pwReport,
                   pwExitCode>>

\* a loop body without the try/except: what test_func raises leaves the loop
pw_returnNoExcept(ev) ==
    /\ script = "playwright"
    /\ UNCHANGED notPw
    /\ pwPc = "step"
    /\ LET test_name == pwStarted[Len(pwStarted)]
           did == test_func(test_name, ev)
       IN /\ ev \in EventsOf(test_name)
          /\ pwHist' = Append(pwHist, [name |-> test_name] @@ did)
          /\ IF did.res \notin {"True", "False"}
             THEN /\ pwExc' = did.res
                  /\ pwPc' = "exit"
                  /\ UNCHANGED results
             ELSE /\ results' = Classify(results, test_name, did)
                  /\ pwPc' = "loop"
                  /\ UNCHANGED pwExc
    /\ UNCHANGED <<pwPlaywright, pwBrowser, pwReleaseN, pwStarted, pwReport, pwExitCode>>

\* test_func returns or raises, and the loop body records it
pw_return(ev) ==
    /\ script = "playwright"
    /\ UNCHANGED notPw
    /\ pwPc = "step"
    /\ LET test_name == pwStarted[Len(pwStarted)]
           did == test_func(test_name, ev)
       IN /\ ev \in EventsOf(test_name)
          /\ pwHist' = Append(pwHist, [name |-> test_name] @@ did)
          /\ IF did.res = "Interrupt"
             THEN /\ pwExc' = "Interrupt"
                  /\ pwPc' = "exit"
                  /\ UNCHANGED results
             ELSE /\ results' = Classify(results, test_name, did)
                  /\ pwPc' = "loop"
                  /\ UNCHANGED pwExc
    /\ UNCHANGED <<pwPlaywright, pwBrowser, pwReleaseN, pwStarted, pwReport, pwExitCode>>

\* await browser.close()
pw_close(outcome) ==
    /\ script = "playwright"
    /\ UNCHANGED notPw
    /\ pwPc = "loop"
    /\ NextTest > Len(tests)
    /\ IF outcome = "ok"
       THEN /\ pwBrowser' = "closed"
            /\ pwReleaseN' = pwReleaseN + 1
            /\ UNCHANGED pwExc
       ELSE /\ pwExc' = "Error"
            /\ UNCHANGED <<pwBrowser, pwReleaseN>>
    /\ pwPc' = "exit"
    /\ UNCHANGED <<results, pwPlaywright, pwStarted, pwHist, pwReport, pwExitCode>>

\* leaving `async with async_playwright()`: the driver stops and takes a still
\* open browser with it; a propagating exception leaves run_tests
pw_exit ==
    /\ script = "playwright"
    /\ UNCHANGED notPw
    /\ pwPc = "exit"
    /\ pwPlaywright' = "stopped"
    /\ IF pwBrowser = "open"
       THEN /\ pwBrowser' = "closed"
            /\ pwReleaseN' = pwReleaseN + 1
       ELSE UNCHANGED <<pwBrowser, pwReleaseN>>
    /\ IF pwExc = "none"
       THEN /\ pwPc' = "write"
            /\ UNCHANGED pwExitCode
       ELSE /\ pwPc' = "raised"
            /\ pwExitCode' = 1
    /\ UNCHANGED <<results, pwExc, pwStarted, pwHist, pwReport>>

\* a run_tests that writes the report inside the with-block, before
\* browser.close()
pw_writeBeforeClose(outcome) ==
    /\ script = "playwright"
    /\ UNCHANGED notPw
    /\ pwPc = "loop"
    /\ NextTest > Len(tests)
    /\ pwReport = <<>>
    /\ outcome = "ok"
    /\ pwReport' = <<results>>
    /\ UNCHANGED <<pwPc, pwExc, pwExitCode>>
    /\ UNCHANGED <<results, pwPlaywright, pwBrowser, pwReleaseN, pwStarted, pwHist>>

\* json.dump(results, f); return results["success"]
pw_write(outcome) ==
    /\ script = "playwright"
    /\ UNCHANGED notPw
    /\ pwPc = "write"
    /\ IF outcome = "ok"
       THEN /\ pwReport' = <<results>>
            /\ pwPc' = "returned"
            /\ UNCHANGED <<pwExc, pwExitCode>>
       ELSE /\ pwExc' = "Error"
            /\ pwPc' = "raised"
            /\ pwExitCode' = 1
            /\ UNCHANGED pwReport
    /\ UNCHANGED <<results, pwPlaywright, pwBrowser, pwReleaseN, pwStarted, pwHist>>

\* a __main__ that ignores what run_tests returned
pw_mainExitsZero ==
    /\ script = "playwright"
    /\ UNCHANGED notPw
    /\ pwPc = "returned"
    /\ pwExitCode' = 0
    /\ pwPc' = "done"
    /\ UNCHANGED <<results, pwPlaywright, pwBrowser, pwReleaseN, pwExc, pwStarted,
                   pwHist, pwReport>>

\* success = asyncio.run(run_tests()); exit(0 if success else 1)
pw_main ==
    /\ script = "playwright"
    /\ UNCHANGED notPw
    /\ pwPc = "returned"
    /\ pwExitCode' = IF results.success THEN 0 ELSE 1
    /\ pwPc' = "done"
    /\ UNCHANGED <<results, pwPlaywright, pwBrowser, pwReleaseN, pwExc, pwStarted,
                   pwHist, pwReport>>

PwNext ==
    \/ \E o \in {"ok", "fault"} : pw_enter(o)
    \/ \E o \in {"ok", "launch_fault", "context_fault"} : pw_launch(o)
    \/ pw_invoke
    \/ \E ev \in PageEvents : pw_return(ev)
    \/ \E o \in {"ok", "fault"} : pw_close(o)
    \/ pw_exit
    \/ \E o \in {"ok", "fault"} : pw_write(o)
    \/ pw_main

(***************************************************************************)
(* backup/testing/selenium_ui_tests.py                                     *)
(***************************************************************************)
\* the test methods of BenedictaitorUITests, in the order the class defines them
testMethods ==
    <<"test_01_teacher_interface", "test_02_student_interface",
      "test_03_language_selection", "test_04_recording_buttons",
      "test_05_transcription_display">>

\* unittest.TestLoader().loadTestsFromTestCase(BenedictaitorUITests): the test
\* methods sorted by name
suite == SortNames(Range(testMethods))

\* what the page can do to a test method
SePageEvents ==
    {"ok", "goto_fault", "title_timeout", "elem_timeout", "elem_fault", "elem_missing",
     "value_mismatch", "script_fault", "shot_fault", "wait_timeout", "wait_fault",
     "wait_timeout_errshot_fault", "interrupt"}

\* element_exists(selector) followed by assertTrue(..._exists): a timeout or a
\* driver fault of the wait both come back as False and fail the assertion
test_01_teacher_interface(ev) ==
    CASE ev = "interrupt"     -> Interrupted
      [] ev = "goto_fault"    -> Did("Error", "fault", FALSE, FALSE)
      [] ev = "title_timeout" -> Did("TimeoutException", "timeout", FALSE, FALSE)
      [] ev = "elem_timeout"  -> Did("AssertionError", "timeout", TRUE, FALSE)
      [] ev = "elem_fault"    -> Did("AssertionError", "fault", TRUE, FALSE)
      [] ev = "shot_fault"    -> Did("Error", "none", TRUE, TRUE)
      [] OTHER                -> Did("True", "none", TRUE, FALSE)

\* test_02_student_interface(self)
test_02_student_interface(ev) ==
    CASE ev = "interrupt"     -> Interrupted
      [] ev = "goto_fault"    -> Did("Error", "fault", FALSE, FALSE)
      [] ev = "title_timeout" -> Did("TimeoutException", "timeout", FALSE, FALSE)
      [] ev = "elem_timeout"  -> Did("AssertionError", "timeout", TRUE, FALSE)
      [] ev = "elem_fault"    -> Did("AssertionError", "fault", TRUE, FALSE)
      [] ev = "shot_fault"    -> Did("Error", "none", TRUE, TRUE)
      [] OTHER                -> Did("True", "none", TRUE, FALSE)

\* test_03_language_selection(self): find_element raises NoSuchElementException
test_03_language_selection(ev) ==
    CASE ev = "interrupt"      -> Interrupted
      [] ev = "goto_fault"     -> Did("Error", "fault", FALSE, FALSE)
      [] ev = "title_timeout"  -> Did("TimeoutException", "timeout", FALSE, FALSE)
      [] ev = "elem_missing"   -> Did("Error", "fault", FALSE, FALSE)
      [] ev = "shot_fault"     -> Did("Error", "none", TRUE, TRUE)
      [] ev = "value_mismatch" -> Did("AssertionError", "assertion", TRUE, FALSE)
      [] OTHER                 -> Did("True", "none", TRUE, FALSE)

\* test_04_recording_buttons(self)
test_04_recording_buttons(ev) ==
    CASE ev = "interrupt"      -> Interrupted
      [] ev = "goto_fault"     -> Did("Error", "fault", FALSE, FALSE)
      [] ev = "title_timeout"  -> Did("TimeoutException", "timeout", FALSE, FALSE)
      [] ev = "elem_missing"   -> Did("Error", "fault", FALSE, FALSE)
      [] ev = "shot_fault"     -> Did("Error", "none", TRUE, TRUE)
      [] ev = "value_mismatch" -> Did("AssertionError", "assertion", TRUE, FALSE)
      [] OTHER                 -> Did("True", "none", TRUE, FALSE)

\* test_05_transcription_display(self): the except branch takes the error
\* screenshot and calls self.fail
test_05_transcription_display(ev) ==
    CASE ev = "interrupt"     -> Interrupted
      [] ev = "goto_fault"    -> Did("Error", "fault", FALSE, FALSE)
      [] ev = "title_timeout" -> Did("TimeoutException", "timeout", FALSE, FALSE)
      [] ev = "script_fault"  -> Did("Error", "fault", FALSE, FALSE)
      [] ev = "wait_timeout"  -> Did("AssertionError", "timeout", TRUE, FALSE)
      [] ev = "wait_fault"    -> Did("AssertionError", "fault", TRUE, FALSE)
      [] ev = "shot_fault"    -> Did("AssertionError", "none", TRUE, TRUE)
      [] ev = "wait_timeout_errshot_fault" -> Did("Error", "timeout", TRUE, TRUE)
      [] OTHER                -> Did("True", "none", TRUE, FALSE)

\* getattr(test, methodName)()
testMethod(name, ev) ==
    CASE name = "test_01_teacher_interface"     -> test_01_teacher_interface(ev)
      [] name = "test_02_student_interface"     -> test_02_student_interface(ev)
      [] name = "test_03_language_selection"    -> test_03_language_selection(ev)
      [] name = "test_04_recording_buttons"     -> test_04_recording_buttons(ev)
      [] name = "test_05_transcription_display" -> test_05_transcription_display(ev)

\* remote_selenium_tests.py, test_01_teacher_interface: take_screenshot
\* swallows the exception of save_screenshot
rm_test_01_teacher_interface(ev) ==
    CASE ev = "interrupt"     -> Interrupted
      [] ev = "goto_fault"    -> Did("Error", "fault", FALSE, FALSE)
      [] ev = "title_timeout" -> Did("TimeoutException", "timeout", FALSE, FALSE)
      [] ev = "elem_timeout"  -> Did("AssertionError", "timeout", TRUE, FALSE)
      [] ev = "elem_fault"    -> Did("AssertionError", "fault", TRUE, FALSE)
      [] ev = "shot_fault"    -> Did("True", "none", TRUE, TRUE)
      [] OTHER                -> Did("True", "none", TRUE, FALSE)

\* remote_selenium_tests.py, test_02_student_interface
rm_test_02_student_interface(ev) ==
    CASE ev = "interrupt"     -> Interrupted
      [] ev = "goto_fault"    -> Did("Error", "fault", FALSE, FALSE)
      [] ev = "title_timeout" -> Did("TimeoutException", "timeout", FALSE, FALSE)
      [] ev = "elem_timeout"  -> Did("AssertionError", "timeout", TRUE, FALSE)
      [] ev = "elem_fault"    -> Did("AssertionError", "fault", TRUE, FALSE)
      [] ev = "shot_fault"    -> Did("True", "none", TRUE, TRUE)
      [] OTHER                -> Did("True", "none", TRUE, FALSE)

\* remote_selenium_tests.py, test_03_language_selection: the selector is
\* awaited with WebDriverWait, the value is set by execute_script
rm_test_03_language_selection(ev) ==
    CASE ev = "interrupt"      -> Interrupted
      [] ev = "goto_fault"     -> Did("Error", "fault", FALSE, FALSE)
      [] ev = "title_timeout"  -> Did("TimeoutException", "timeout", FALSE, FALSE)
      [] ev = "elem_timeout"   -> Did("TimeoutException", "timeout", FALSE, FALSE)
      [] ev = "script_fault"   -> Did("Error", "fault", FALSE, FALSE)
      [] ev = "shot_fault"     -> Did("True", "none", TRUE, TRUE)
      [] ev = "value_mismatch" -> Did("AssertionError", "assertion", TRUE, FALSE)
      [] OTHER                 -> Did("True", "none", TRUE, FALSE)

\* remote_selenium_tests.py, test_04_recording_buttons: the start button is
\* awaited with WebDriverWait, the stop button is looked up with find_element
rm_test_04_recording_buttons(ev) ==
    CASE ev = "interrupt"      -> Interrupted
      [] ev = "goto_fault"     -> Did("Error", "fault", FALSE, FALSE)
      [] ev = "title_timeout"  -> Did("TimeoutException", "timeout", FALSE, FALSE)
      [] ev = "elem_timeout"   -> Did("TimeoutException", "timeout", FALSE, FALSE)
      [] ev = "elem_missing"   -> Did("Error", "fault", FALSE, FALSE)
      [] ev = "shot_fault"     -> Did("True", "none", TRUE, TRUE)
      [] ev = "value_mismatch" -> Did("AssertionError", "assertion", TRUE, FALSE)
      [] OTHER                 -> Did("True", "none", TRUE, FALSE)

\* remote_selenium_tests.py, test_05_transcription_display
rm_test_05_transcription_display(ev) ==
    CASE ev = "interrupt"     -> Interrupted
      [] ev = "goto_fault"    -> Did("Error", "fault", FALSE, FALSE)
      [] ev = "title_timeout" -> Did("TimeoutException", "timeout", FALSE, FALSE)
      [] ev = "script_fault"  -> Did("Error", "fault", FALSE, FALSE)
      [] ev = "wait_timeout"  -> Did("AssertionError", "timeout", TRUE, FALSE)
      [] ev = "wait_fault"    -> Did("AssertionError", "fault", TRUE, FALSE)
      [] ev = "shot_fault"    -> Did("True", "none", TRUE, TRUE)
      [] ev = "wait_timeout_errshot_fault" -> Did("AssertionError", "timeout", TRUE, TRUE)
      [] OTHER                -> Did("True", "none", TRUE, FALSE)

\* getattr(test, methodName)() of BenedictaitorRemoteTests
rm_testMethod(name, ev) ==
    CASE name = "test_01_teacher_interface"     -> rm_test_01_teacher_interface(ev)
      [] name = "test_02_student_interface"     -> rm_test_02_student_interface(ev)
      [] name = "test_03_language_selection"    -> rm_test_03_language_selection(ev)
      [] name = "test_04_recording_buttons"     -> rm_test_04_recording_buttons(ev)
      [] name = "test_05_transcription_display" -> rm_test_05_transcription_display(ev)

\* the test method of the class the running script loaded
runMethod(name, ev) ==
    IF script = "remote" THEN rm_testMethod(name, ev) ELSE testMethod(name, ev)

\* the events that make a difference to a test method
SeEventsOf(name) ==
    {"ok", "interrupt"} \cup
    {ev \in SePageEvents : runMethod(name, ev) # runMethod(name, "ok")}

\* test.id().split('.')[-1] of the holder unittest records a setUpClass or
\* tearDownClass error under: "setUpClass (__main__.BenedictaitorUITests)"
ClassErrorName == "BenedictaitorUITests)"

\* the same for "setUpClass (__main__.BenedictaitorRemoteTests)"
rm_ClassErrorName == "BenedictaitorRemoteTests)"

\* the name the running script's report gives a class-level error
classErrorName == IF script = "remote" THEN rm_ClassErrorName ELSE ClassErrorName

SeInit ==
    /\ sePc = "start"
    /\ seDriver = "unset"
    /\ seAttempts = <<>>
    /\ seQuitN = 0
    /\ seResult = [testsRun |-> 0, failures |-> <<>>, errors |-> <<>>, skipped |-> <<>>]
    /\ seStarted = <<>>
    /\ seHist = <<>>
    /\ seReport = <<>>
    /\ seExitCode = -1

\* unittest's outcome of a test method: failureException is AssertionError; the
\* message is the formatted traceback, here the exceptions it shows with the
\* call each was raised from
addOutcome(r, name, did) ==
    CASE did.res = "True"           -> r
      [] did.res = "AssertionError" ->
             [r EXCEPT !.failures = Append(@, [name |-> name,
                    message |-> <<[at |-> name, exc |-> did.res]>>])]
      [] OTHER                      ->
             [r EXCEPT !.errors = Append(@, [name |-> name,
                    message |-> <<[at |-> name, exc |-> did.res]>>])]

\* result.wasSuccessful()
wasSuccessful(r) == Len(r.failures) = 0 /\ Len(r.errors) = 0

\* a traceback that shows the last exception only
TracebackLastOnly(attempts) ==
    <<[at |-> attempts[Len(attempts)].strategy, exc |-> "Error"]>>

\* the traceback of the exception setUpClass raises after its attempts failed:
\* the bare raise of line 66 re-raises the webdriver_manager error inside the
\* handler of the Node.js ChromeDriver error, so Python has set its __context__
\* and unittest's formatted traceback shows the chain, oldest first, each
\* exception with the call it was raised from
Traceback(attempts) ==
    [i \in 1..Len(attempts) |-> [at |-> attempts[i].strategy, exc |-> "Error"]]

\* a setUpClass that goes on to webdriver_manager although the Node.js
\* ChromeDriver worked
se_setUpClassTriesAll(primary, fallback) ==
    /\ script = "selenium"
    /\ UNCHANGED notSe
    /\ sePc = "start"
    /\ seAttempts' = <<[strategy |-> "chromedriver", outcome |-> primary],
                       [strategy |-> "webdriver_manager", outcome |-> fallback]>>
    /\ IF primary = "ok" \/ fallback = "ok"
       THEN /\ seDriver' = "live"
            /\ sePc' = "tests"
            /\ UNCHANGED seResult
       ELSE /\ seResult' = [seResult EXCEPT !.errors =
                   Append(@, [name |-> ClassErrorName,
                              message |-> Traceback(seAttempts')])]
            /\ sePc' = "report"
            /\ UNCHANGED seDriver
    /\ UNCHANGED <<seQuitN, seStarted, seHist, seReport, seExitCode>>

\* setUpClass: the Node.js ChromeDriver, then webdriver_manager, else raise;
\* unittest records a raising setUpClass as an error and runs no test of the class
se_setUpClass(primary, fallback) ==
    /\ script = "selenium"
    /\ UNCHANGED notSe
    /\ sePc = "start"
    /\ IF primary = "ok"
       THEN /\ seAttempts' = <<[strategy |-> "chromedriver", outcome |-> "ok"]>>
            /\ seDriver' = "live"
            /\ sePc' = "tests"
            /\ UNCHANGED seResult
       ELSE /\ seAttempts' = <<[strategy |-> "chromedriver", outcome |-> "fault"],
                               [strategy |-> "webdriver_manager", outcome |-> fallback]>>
            /\ IF fallback = "ok"
               THEN /\ seDriver' = "live"
                    /\ sePc' = "tests"
                    /\ UNCHANGED seResult
               ELSE /\ seResult' = [seResult EXCEPT !.errors =
                           Append(@, [name |-> ClassErrorName,
                                      message |-> Traceback(seAttempts')])]
                    /\ sePc' = "report"
                    /\ UNCHANGED seDriver
    /\ UNCHANGED <<seQuitN, seStarted, seHist, seReport, seExitCode>>

\* a setUpClass of the remote class that swallows the connection error
rm_setUpClassSwallows(outcome) ==
    /\ script = "remote"
    /\ UNCHANGED notSe
    /\ sePc = "start"
    /\ seAttempts' = <<[strategy |-> "remote_grid", outcome |-> outcome]>>
    /\ seDriver' = IF outcome = "ok" THEN "live" ELSE seDriver
    /\ sePc' = "tests"
    /\ UNCHANGED <<seResult, seQuitN, seStarted, seHist, seReport, seExitCode>>

\* setUpClass of BenedictaitorRemoteTests: webdriver.Remote(...), else raise
rm_setUpClass(outcome) ==
    /\ script = "remote"
    /\ UNCHANGED notSe
    /\ sePc = "start"
    /\ seAttempts' = <<[strategy |-> "remote_grid", outcome |-> outcome]>>
    /\ IF outcome = "ok"
       THEN /\ seDriver' = "live"
            /\ sePc' = "tests"
            /\ UNCHANGED seResult
       ELSE /\ seResult' = [seResult EXCEPT !.errors =
                   Append(@, [name |-> rm_ClassErrorName,
                              message |-> Traceback(seAttempts')])]
            /\ sePc' = "report"
            /\ UNCHANGED seDriver
    /\ UNCHANGED <<seQuitN, seStarted, seHist, seReport, seExitCode>>

\* the index of the next test of the suite
SeNextTest == Len(seHist) + 1

\* result.startTest(test)
se_startTest ==
    /\ script \in UnittestScripts
    /\ UNCHANGED notSe
    /\ sePc = "tests"
    /\ SeNextTest <= Len(suite)
    /\ seResult' = [seResult EXCEPT !.testsRun = @ + 1]
    /\ seStarted' = Append(seStarted, suite[SeNextTest])
    /\ sePc' = "test"
    /\ UNCHANGED <<seDriver, seAttempts, seQuitN, seHist, seReport, seExitCode>>

\* the test method returns or raises and unittest records it; a
\* KeyboardInterrupt leaves the runner and run_tests
se_runTest(ev) ==
    /\ script \in UnittestScripts
    /\ UNCHANGED notSe
    /\ sePc = "test"
    /\ LET name == seStarted[Len(seStarted)]
           did == runMethod(name, ev)
       IN /\ ev \in SeEventsOf(name)
          /\ seHist' = Append(seHist, [name |-> name] @@ did)
          /\ IF did.res = "Interrupt"
             THEN /\ sePc' = "raised"
                  /\ seExitCode' = 1
                  /\ UNCHANGED seResult
             ELSE /\ seResult' = addOutcome(seResult, name, did)
                  /\ sePc' = "tests"
                  /\ UNCHANGED seExitCode
    /\ UNCHANGED <<seDriver, seAttempts, seQuitN, seStarted, seReport>>

\* tearDownClass: cls.driver.quit(); a raising quit is recorded as an error.
\* unittest calls it only after a setUpClass that returned, so cls.driver is
\* set and the hasattr guard of the remote class is passed
se_tearDownClass(outcome) ==
    /\ script \in UnittestScripts
    /\ UNCHANGED notSe
    /\ sePc = "tests"
    /\ SeNextTest > Len(suite)
    /\ seQuitN' = seQuitN + 1
    /\ seDriver' = "quit"
    /\ seResult' = IF outcome = "ok" THEN seResult
                   ELSE [seResult EXCEPT !.errors =
                            Append(@, [name |-> classErrorName,
                               message |-> <<[at |-> "tearDownClass", exc |-> "Error"]>>])]
    /\ sePc' = "report"
    /\ UNCHANGED <<seAttempts, seStarted, seHist, seReport, seExitCode>>

\* a report whose details are filled from result.failures alone
TestDetailsOfFailuresOnly(r) ==
    LET RECURSIVE Fill(_, _)
        Fill(d, i) ==
            IF i > Len(r.failures)
            THEN d
            ELSE Fill(DictSet(d, r.failures[i].name,
                         [status |-> "FAIL", message |-> r.failures[i].message]), i + 1)
    IN Fill(<<>>, 1)

\* for test, error in result.failures + result.errors: test_details[name] = ...
TestDetails(r) ==
    LET all == r.failures \o r.errors
        failed == {r.failures[i].name : i \in DOMAIN r.failures}
        RECURSIVE Fill(_, _)
        Fill(d, i) ==
            IF i > Len(all)
            THEN d
            ELSE Fill(DictSet(d, all[i].name,
                         [status |-> IF all[i].name \in failed THEN "FAIL" ELSE "ERROR",
                          message |-> all[i].message]), i + 1)
    IN Fill(<<>>, 1)

\* results_data = {...}
ResultsData(r) ==
    [tests_run |-> r.testsRun,
     failures |-> Len(r.failures),
     errors |-> Len(r.errors),
     skipped |-> Len(r.skipped),
     success |-> wasSuccessful(r),
     test_details |-> TestDetails(r)]

\* json.dump(results_data, f); return result.wasSuccessful()
se_report(outcome) ==
    /\ script \in UnittestScripts
    /\ UNCHANGED notSe
    /\ sePc = "report"
    /\ IF outcome = "ok"
       THEN /\ seReport' = <<ResultsData(seResult)>>
            /\ sePc' = "returned"
            /\ UNCHANGED seExitCode
       ELSE /\ sePc' = "raised"
            /\ seExitCode' = 1
            /\ UNCHANGED seReport
    /\ UNCHANGED <<seDriver, seAttempts, seQuitN, seResult, seStarted, seHist>>

\* success = run_tests(); exit(0 if success else 1)
se_main ==
    /\ script \in UnittestScripts
    /\ UNCHANGED notSe
    /\ sePc = "returned"
    /\ seExitCode' = IF wasSuccessful(seResult) THEN 0 ELSE 1
    /\ sePc' = "done"
    /\ UNCHANGED <<seDriver, seAttempts, seQuitN, seResult, seStarted, seHist, seReport>>

SeNext ==
    \/ \E a, b \in {"ok", "fault"} : se_setUpClass(a, b)
    \/ \E o \in {"ok", "fault"} : rm_setUpClass(o)
    \/ se_startTest
    \/ \E ev \in SePageEvents : se_runTest(ev)
    \/ \E o \in {"ok", "fault"} : se_tearDownClass(o)
    \/ \E o \in {"ok", "fault"} : se_report(o)
    \/ se_main

(***************************************************************************)
(* python_full_e2e_test.py: run_e2e_test                                   *)
(***************************************************************************)
\* SERVER_PROCESS = None
E2eInit ==
    /\ e2ePc = "start"
    /\ SERVER_PROCESS = 0
    /\ spawned = {}
    /\ signalled = {}
    /\ driver = "None"
    /\ e2eQuitN = 0
    /\ e2eExc = "none"
    /\ e2eExitCode = -1
    /\ page = "none"
    /\ mock = FALSE

\* what can go wrong between webdriver.Chrome(...) and the click on the
\* record button
FlowEvents ==
    {"ok", "get_fault", "wait_timeout", "inject_fault", "shot_fault",
     "no_record_button", "click_fault", "interrupt"}

\* what can happen between the click on the record button and the final
\* screenshot; without a stop button the flow goes on
FinishEvents ==
    {"ok", "no_stop_button", "find_fault", "click_fault", "shot_fault", "interrupt"}

\* the exception a flow event raises
FlowExc(ev) ==
    CASE ev = "ok"               -> "none"
      [] ev = "no_stop_button"   -> "none"
      [] ev = "wait_timeout"     -> "TimeoutException"
      [] ev = "no_record_button" -> "Exception"
      [] ev = "interrupt"        -> "Interrupt"
      [] OTHER                   -> "Error"

\* ensure_test_audio_exists(); start_server()
e2e_start_server(outcome) ==
    /\ script = "e2e"
    /\ UNCHANGED notE2e
    /\ e2ePc = "start"
    /\ IF SERVER_PROCESS # 0
       THEN /\ e2ePc' = "acquire"
            /\ UNCHANGED <<SERVER_PROCESS, spawned, e2eExc>>
       ELSE IF outcome = "ok"
            THEN /\ SERVER_PROCESS' = Cardinality(spawned) + 1
                 /\ spawned' = spawned \cup {Cardinality(spawned) + 1}
                 /\ e2ePc' = "acquire"
                 /\ UNCHANGED e2eExc
            ELSE /\ e2eExc' = "Error"
                 /\ e2ePc' = "raised"
                 /\ UNCHANGED <<SERVER_PROCESS, spawned>>
    /\ UNCHANGED <<signalled, driver, e2eQuitN, e2eExitCode, page, mock>>

\* service = Service(ChromeDriverManager().install()); driver = webdriver.Chrome(...)
e2e_acquire(outcome) ==
    /\ script = "e2e"
    /\ UNCHANGED notE2e
    /\ e2ePc = "acquire"
    /\ CASE outcome = "ok" ->
              /\ driver' = "live"
              /\ page' = "open"
              /\ e2ePc' = "flow"
              /\ UNCHANGED e2eExc
         [] outcome = "fault" ->
              /\ e2eExc' = "Error"
              /\ e2ePc' = "except"
              /\ UNCHANGED <<driver, page>>
         [] outcome = "interrupt" ->
              /\ e2eExc' = "Interrupt"
              /\ e2ePc' = "finally"
              /\ UNCHANGED <<driver, page>>
    /\ UNCHANGED <<SERVER_PROCESS, spawned, signalled, e2eQuitN, e2eExitCode, mock>>

\* the first part of the try block, from implicitly_wait to the click on the
\* record button; inject_audio_mock sits between the page-load wait and the
\* first screenshot
e2e_flow(ev) ==
    /\ script = "e2e"
    /\ UNCHANGED notE2e
    /\ e2ePc = "flow"
    /\ ev \in FlowEvents
    /\ e2eExc' = FlowExc(ev)
    /\ e2ePc' = CASE ev = "ok"        -> "recording"
                  [] ev = "interrupt" -> "finally"
                  [] OTHER            -> "except"
    /\ mock' = (ev \notin {"get_fault", "wait_timeout", "inject_fault", "interrupt"})
    /\ UNCHANGED <<SERVER_PROCESS, spawned, signalled, driver, e2eQuitN, e2eExitCode,
                   page>>

\* the rest of the try block: time.sleep(5), the search for text, the click
\* on the stop button if there is one, the final screenshot
e2e_finish(ev) ==
    /\ script = "e2e"
    /\ UNCHANGED notE2e
    /\ e2ePc = "recording"
    /\ ev \in FinishEvents
    /\ e2eExc' = FlowExc(ev)
    /\ e2ePc' = CASE ev \in {"ok", "no_stop_button", "interrupt"} -> "finally"
                  [] OTHER -> "except"
    /\ UNCHANGED <<SERVER_PROCESS, spawned, signalled, driver, e2eQuitN, e2eExitCode,
                   page, mock>>

\* except Exception as e: error screenshot if driver; raise e
e2e_except(shot) ==
    /\ script = "e2e"
    /\ UNCHANGED notE2e
    /\ e2ePc = "except"
    /\ (driver = "None") => shot = "ok"
    /\ e2eExc' = IF shot = "ok" THEN e2eExc ELSE "Error"
    /\ e2ePc' = "finally"
    /\ UNCHANGED <<SERVER_PROCESS, spawned, signalled, driver, e2eQuitN, e2eExitCode,
                   page, mock>>

\* stop_server(): signal the process if there is one, and empty the slot
StopServer(sig) == IF SERVER_PROCESS # 0 THEN sig \cup {SERVER_PROCESS} ELSE sig

\* a clean-up without driver.quit(): only the server is stopped
e2e_finallyStopsServerOnly(quit) ==
    /\ script = "e2e"
    /\ UNCHANGED notE2e
    /\ e2ePc = "finally"
    /\ quit = "ok"
    /\ signalled' = StopServer(signalled)
    /\ SERVER_PROCESS' = 0
    /\ e2ePc' = IF e2eExc = "none" THEN "done" ELSE "raised"
    /\ UNCHANGED <<spawned, e2eExitCode, e2eQuitN, driver, e2eExc, page, mock>>

\* a clean-up that quits the driver only when the flow completed, as if
\* driver.quit() closed the try block instead of sitting in finally
e2e_finallyQuitOnSuccessOnly(quit) ==
    /\ script = "e2e"
    /\ UNCHANGED notE2e
    /\ e2ePc = "finally"
    /\ (driver = "None" \/ e2eExc # "none") => quit = "ok"
    /\ IF driver # "None" /\ e2eExc = "none"
       THEN /\ e2eQuitN' = e2eQuitN + 1
            /\ driver' = "quit"
            /\ page' = IF quit = "ok" THEN "closed" ELSE "unknown"
       ELSE UNCHANGED <<e2eQuitN, driver, page>>
    /\ IF quit = "ok"
       THEN /\ signalled' = StopServer(signalled)
            /\ SERVER_PROCESS' = 0
            /\ UNCHANGED e2eExc
       ELSE /\ e2eExc' = "Error"
            /\ UNCHANGED <<signalled, SERVER_PROCESS>>
    /\ e2ePc' = IF quit = "ok" /\ e2eExc = "none" THEN "done" ELSE "raised"
    /\ UNCHANGED <<spawned, e2eExitCode, mock>>

\* finally: driver.quit() if driver; stop_server(). A quit that returns has
\* ended the browser and with it the page and its timers; after a quit that
\* raised the browser may or may not still run
e2e_finally(quit) ==
    /\ script = "e2e"
    /\ UNCHANGED notE2e
    /\ e2ePc = "finally"
    /\ (driver = "None") => quit = "ok"
    /\ IF driver # "None"
       THEN /\ e2eQuitN' = e2eQuitN + 1
            /\ driver' = "quit"
            /\ page' = IF quit = "ok" THEN "closed" ELSE "unknown"
       ELSE UNCHANGED <<e2eQuitN, driver, page>>
    /\ IF quit = "ok"
       THEN /\ signalled' = StopServer(signalled)
            /\ SERVER_PROCESS' = 0
            /\ UNCHANGED e2eExc
       ELSE /\ e2eExc' = "Error"
            /\ UNCHANGED <<signalled, SERVER_PROCESS>>
    /\ e2ePc' = IF quit = "ok" /\ e2eExc = "none" THEN "done" ELSE "raised"
    /\ UNCHANGED <<spawned, e2eExitCode, mock>>

\* __main__: exit(1) when run_e2e_test raised
e2e_main ==
    /\ script = "e2e"
    /\ UNCHANGED notE2e
    /\ e2ePc \in {"done", "raised"}
    /\ e2eExitCode = -1
    /\ e2eExitCode' = IF e2ePc = "done" THEN 0 ELSE 1
    /\ UNCHANGED <<e2ePc, SERVER_PROCESS, spawned, signalled, driver, e2eQuitN, e2eExc,
                   page, mock>>

E2eNext ==
    \/ \E o \in {"ok", "fault"} : e2e_start_server(o)
    \/ \E o \in {"ok", "fault", "interrupt"} : e2e_acquire(o)
    \/ \E ev \in FlowEvents : e2e_flow(ev)
    \/ \E ev \in FinishEvents : e2e_finish(ev)
    \/ \E o \in {"ok", "fault"} : e2e_except(o)
    \/ \E o \in {"ok", "fault"} : e2e_finally(o)
    \/ e2e_main

(***************************************************************************)
(* The release functions called on their own                               *)
(***************************************************************************)
\* the two test classes: BenedictaitorUITests and BenedictaitorRemoteTests
TestClasses == {"selenium", "remote"}

RelInit ==
    /\ relDriver = [c \in TestClasses |-> "unset"]
    /\ relQuitN = [c \in TestClasses |-> 0]
    /\ relLast = [fn |-> "none", cls |-> "none", from |-> "none", raised |-> FALSE]

\* how the SERVER_PROCESS slot reads in `if SERVER_PROCESS:`
Slot == IF SERVER_PROCESS = 0 THEN "None" ELSE "process"

\* setUpClass of a class returning with cls.driver set
setUpClass(c) ==
    /\ script = "release"
    /\ UNCHANGED notRel
    /\ relDriver[c] = "unset"
    /\ relDriver' = [relDriver EXCEPT ![c] = "live"]
    /\ relLast' = [fn |-> "setUpClass", cls |-> c, from |-> relDriver[c],
                   raised |-> FALSE]
    /\ UNCHANGED <<relQuitN, SERVER_PROCESS, spawned, signalled>>

\* tearDownClass called on its own. BenedictaitorRemoteTests checks
\* hasattr(cls, 'driver'); BenedictaitorUITests does not, and cls.driver
\* raises AttributeError when setUpClass never set it. Neither remembers a
\* quit: a second call calls driver.quit() again, which may raise
tearDownClass(c, outcome) ==
    /\ script = "release"
    /\ UNCHANGED notRel
    /\ relQuitN[c] < MaxQuits
    /\ IF relDriver[c] = "unset"
       THEN /\ outcome = "ok"
            /\ relLast' = [fn |-> "tearDownClass", cls |-> c, from |-> "unset",
                           raised |-> (c = "selenium")]
            /\ UNCHANGED <<relDriver, relQuitN>>
       ELSE /\ relDriver' = [relDriver EXCEPT ![c] = "quit"]
            /\ relQuitN' = [relQuitN EXCEPT ![c] = @ + 1]
            /\ relLast' = [fn |-> "tearDownClass", cls |-> c, from |-> relDriver[c],
                           raised |-> (outcome = "fault")]
    /\ UNCHANGED <<SERVER_PROCESS, spawned, signalled>>

\* a start_server() without the early return on a held process
start_serverUnguarded(outcome) ==
    /\ script = "release"
    /\ UNCHANGED notRel
    /\ Cardinality(spawned) < MaxServers
    /\ relLast' = [fn |-> "start_server", cls |-> "none", from |-> Slot,
                   raised |-> (outcome = "fault")]
    /\ IF outcome = "fault"
       THEN UNCHANGED <<SERVER_PROCESS, spawned>>
       ELSE /\ SERVER_PROCESS' = Cardinality(spawned) + 1
            /\ spawned' = spawned \cup {Cardinality(spawned) + 1}
    /\ UNCHANGED <<signalled, relDriver, relQuitN>>

\* start_server() called on its own
start_server(outcome) ==
    /\ script = "release"
    /\ UNCHANGED notRel
    /\ (SERVER_PROCESS = 0) => Cardinality(spawned) < MaxServers
    /\ relLast' = [fn |-> "start_server", cls |-> "none", from |-> Slot,
                   raised |-> (SERVER_PROCESS = 0 /\ outcome = "fault")]
    /\ IF SERVER_PROCESS # 0 \/ outcome = "fault"
       THEN UNCHANGED <<SERVER_PROCESS, spawned>>
       ELSE /\ SERVER_PROCESS' = Cardinality(spawned) + 1
            /\ spawned' = spawned \cup {Cardinality(spawned) + 1}
    /\ UNCHANGED <<signalled, relDriver, relQuitN>>

\* stop_server() called on its own: an exception of the kill is caught
stop_server ==
    /\ script = "release"
    /\ UNCHANGED notRel
    /\ relLast' = [fn |-> "stop_server", cls |-> "none", from |-> Slot,
                   raised |-> FALSE]
    /\ signalled' = StopServer(signalled)
    /\ SERVER_PROCESS' = 0
    /\ UNCHANGED <<spawned, relDriver, relQuitN>>

RelNext ==
    \/ \E c \in TestClasses : setUpClass(c)
    \/ \E c \in TestClasses, o \in {"ok", "fault"} : tearDownClass(c, o)
    \/ \E o \in {"ok", "fault"} : start_server(o)
    \/ stop_server

(***************************************************************************)
(* Waiting for the page                                                    *)
(***************************************************************************)
Never == -1

\* the waiting functions of the test classes
WaitFns == {"until_title", "element_exists", "sleep_then_read"}

\* the times at which the page may make the awaited condition true
TrueTimes == {0, 300, 700, 1200, 4800, 5200, 9800} \cup {Never}

EvalTimes == {QuickEval, SlowEval}

WaitInit ==
    /\ wPc = "idle"
    /\ wFn = "none"
    /\ wCls = "none"
    /\ wTimeout = 0
    /\ wTrueAt = Never
    /\ wEvalTime = 0
    /\ now = 0
    /\ wPolls = 0
    /\ wResult = "none"
    /\ wCaught = "none"

\* the timeout each function waits with
TimeoutOf(fn) ==
    CASE fn = "until_title"     -> TitleTimeout
      [] fn = "element_exists"  -> ElementTimeout
      [] fn = "sleep_then_read" -> ButtonSleep

\* the implicit wait of the class's driver: only the remote setUpClass sets one
ImplicitOf(cls) == IF cls = "remote" THEN ImplicitWait ELSE 0

\* the condition is true on the page at time t
TrueBy(t) == wTrueAt # Never /\ wTrueAt <= t

Max(a, b) == IF a >= b THEN a ELSE b

\* one evaluation of the condition, started at `now`: <<outcome, end time>>.
\* The title condition reads driver.title once. presence_of_element_located
\* calls find_element, which under an implicit wait blocks until the element
\* is there or the implicit wait is over, and raises NoSuchElementException
\* when it is not there.
Evaluate(fn, cls, fault) ==
    IF fault
    THEN <<"WebDriverException", now + wEvalTime>>
    ELSE IF fn = "element_exists"
         THEN IF TrueBy(now + ImplicitOf(cls))
              THEN <<"truthy", Max(now, wTrueAt) + wEvalTime>>
              ELSE <<"NoSuchElementException", now + ImplicitOf(cls) + wEvalTime>>
         ELSE IF TrueBy(now)
              THEN <<"truthy", now + wEvalTime>>
              ELSE <<"falsy", now + wEvalTime>>

\* what WebDriverWait.until does with the outcome of an evaluation: a truthy
\* value is returned, a falsy one and a NoSuchElementException (the only
\* ignored exception) lead to the sleep, any other exception leaves until
UntilIgnores(outcome) == outcome \in {"falsy", "NoSuchElementException"}

\* an element_exists without its try/except: whatever until raises gets out
RaisedUncaught(fn, exc) == [result |-> exc, caught |-> "none"]

\* the result of the call when until raises exc: element_exists catches every
\* Exception and returns False, a bare until lets it through
Raised(fn, exc) ==
    IF fn = "element_exists"
    THEN [result |-> "False", caught |-> exc]
    ELSE [result |-> exc, caught |-> "none"]

\* the test calls a waiting function; end_time = now + timeout
wait_call(fn, cls, t, d) ==
    /\ script = "wait"
    /\ UNCHANGED notWait
    /\ wPc = "idle"
    /\ wFn' = fn
    /\ wCls' = cls
    /\ wTimeout' = TimeoutOf(fn)
    /\ wTrueAt' = t
    /\ wEvalTime' = d
    /\ wPc' = IF fn = "sleep_then_read" THEN "sleeping" ELSE "eval"
    /\ UNCHANGED <<now, wPolls, wResult, wCaught>>

\* until: value = method(driver); if value: return value
wait_evaluate(fault) ==
    /\ script = "wait"
    /\ UNCHANGED notWait
    /\ wPc = "eval"
    /\ LET ev == Evaluate(wFn, wCls, fault)
       IN  /\ now' = ev[2]
           /\ wPolls' = wPolls + 1
           /\ IF ev[1] = "truthy"
              THEN /\ wPc' = "done"
                   /\ wResult' = "True"
                   /\ UNCHANGED wCaught
              ELSE IF UntilIgnores(ev[1])
                   THEN /\ wPc' = "sleep"
                        /\ UNCHANGED <<wResult, wCaught>>
                   ELSE /\ wPc' = "done"
                        /\ wResult' = Raised(wFn, ev[1]).result
                        /\ wCaught' = Raised(wFn, ev[1]).caught
    /\ UNCHANGED <<wFn, wCls, wTimeout, wTrueAt, wEvalTime>>

\* until: time.sleep(self._poll); if time.monotonic() > end_time: break;
\* after the loop: raise TimeoutException
wait_sleep ==
    /\ script = "wait"
    /\ UNCHANGED notWait
    /\ wPc = "sleep"
    /\ now' = now + POLL_FREQUENCY
    /\ IF now' > wTimeout
       THEN /\ wPc' = "done"
            /\ wResult' = Raised(wFn, "TimeoutException").result
            /\ wCaught' = Raised(wFn, "TimeoutException").caught
       ELSE /\ wPc' = "eval"
            /\ UNCHANGED <<wResult, wCaught>>
    /\ UNCHANGED <<wFn, wCls, wTimeout, wTrueAt, wEvalTime, wPolls>>

\* test_04: time.sleep(1), then one stop_button.get_attribute("disabled")
wait_sleepThenRead(fault) ==
    /\ script = "wait"
    /\ UNCHANGED notWait
    /\ wPc = "sleeping"
    /\ now' = now + ButtonSleep + wEvalTime
    /\ wPolls' = wPolls + 1
    /\ wPc' = "done"
    /\ wResult' = IF fault THEN "WebDriverException"
                  ELSE IF TrueBy(now + ButtonSleep) THEN "True" ELSE "False"
    /\ UNCHANGED <<wFn, wCls, wTimeout, wTrueAt, wEvalTime, wCaught>>

WaitNext ==
    \/ \E fn \in WaitFns, cls \in TestClasses, t \in TrueTimes, d \in EvalTimes :
           wait_call(fn, cls, t, d)
    \/ \E fault \in BOOLEAN : wait_evaluate(fault)
    \/ wait_sleep
    \/ \E fault \in BOOLEAN : wait_sleepThenRead(fault)

(***************************************************************************)
(* The interval timer of MockMediaRecorder.start on the page's clock       *)
(***************************************************************************)
\* the granularity of the page's clock, in ms
ClockStep == 125

\* the timeslice arguments tried on the clock: omitted, 250, 1000
TimedTimeslices == Timeslices \cup {DefaultInterval}

TmInit ==
    /\ tmPc = "idle"
    /\ tmNow = 0
    /\ tmArg = 0
    /\ tmStart = 0
    /\ tmDue = 0
    /\ tmHandler = FALSE
    /\ tmTicks = 0
    /\ tmData = 0

\* the page assigns recorder.ondataavailable
tm_setHandler ==
    /\ script = "timer"
    /\ UNCHANGED notTm
    /\ ~tmHandler
    /\ tmHandler' = TRUE
    /\ UNCHANGED <<tmPc, tmNow, tmArg, tmStart, tmDue, tmTicks, tmData>>

\* start(timeslice): this.timer = setInterval(callback, interval)
tm_start(timeslice) ==
    /\ script = "timer"
    /\ UNCHANGED notTm
    /\ tmPc = "idle"
    /\ tmPc' = "armed"
    /\ tmArg' = timeslice
    /\ tmStart' = tmNow
    /\ tmDue' = tmNow + IntervalOf(timeslice)
    /\ UNCHANGED <<tmNow, tmHandler, tmTicks, tmData>>

\* the interval callback: builds a chunk and, if ondataavailable is set,
\* delivers it; setInterval arms the next run one interval after this one
\* was due
tm_callback ==
    /\ script = "timer"
    /\ UNCHANGED notTm
    /\ tmPc = "armed"
    /\ tmNow >= tmDue
    /\ tmTicks' = tmTicks + 1
    /\ tmData' = IF tmHandler THEN tmData + 1 ELSE tmData
    /\ tmDue' = tmDue + IntervalOf(tmArg)
    /\ UNCHANGED <<tmPc, tmNow, tmArg, tmStart, tmHandler>>

\* stop(): clearInterval(this.timer)
tm_stop ==
    /\ script = "timer"
    /\ UNCHANGED notTm
    /\ tmPc = "armed"
    /\ tmPc' = "cleared"
    /\ UNCHANGED <<tmNow, tmArg, tmStart, tmDue, tmHandler, tmTicks, tmData>>

\* time passes on the page after start(); a due callback runs at most MaxLag
\* steps late
tm_elapse ==
    /\ script = "timer"
    /\ UNCHANGED notTm
    /\ tmPc # "idle"
    /\ tmNow + ClockStep <= MaxSteps * ClockStep
    /\ (tmPc = "armed") => (tmNow + ClockStep <= tmDue + MaxLag * ClockStep)
    /\ tmNow' = tmNow + ClockStep
    /\ UNCHANGED <<tmPc, tmArg, tmStart, tmDue, tmHandler, tmTicks, tmData>>

TmNext ==
    \/ tm_setHandler
    \/ \E ts \in TimedTimeslices : tm_start(ts)
    \/ tm_callback
    \/ tm_stop
    \/ tm_elapse

(***************************************************************************)
(* The whole system                                                        *)
(***************************************************************************)
Init ==
    /\ script \in Scripts
    /\ RecorderInit
    /\ PwInit
    /\ SeInit
    /\ E2eInit
    /\ RelInit
    /\ WaitInit
    /\ TmInit

Next ==
    \/ RecorderNext
    \/ PwNext
    \/ SeNext
    \/ E2eNext
    \/ RelNext
    \/ WaitNext
    \/ TmNext

Spec == Init /\ [][Next]_vars

(***************************************************************************)
(* Properties                                                              *)
(***************************************************************************)
\* the names under which a dict kept in insertion order has entries
Keys(d) == {d[i].name : i \in DOMAIN d}

\* d[k].status
StatusIn(d, k) == (CHOOSE e \in Range(d) : e.name = k).status

\* how the Playwright report classifies a finished test function
PwStatus(test_name) ==
    IF test_name \in Keys(results.test_details)
    THEN StatusIn(results.test_details, test_name)
    ELSE "PASS"

\* how the unittest result classifies a finished test method
SeStatus(name) ==
    IF name \in Keys(seResult.failures) THEN "FAIL"
    ELSE IF name \in Keys(seResult.errors) THEN "ERROR"
    ELSE "PASS"

\* the finished steps that ended in an exception or a verdict, not in an interrupt
Judged(hist) == {i \in DOMAIN hist : hist[i].res # "Interrupt"}

NoInterrupt(hist) == Judged(hist) = DOMAIN hist

\* C1: at most one emission timer of the mock recorder is live at any time,
\* whatever start/stop/pause/resume calls were made.
C1_AtMostOneLiveTimer == Cardinality(liveTimers) <= 1

\* C2: every registered scenario produces exactly one result, and a Fail or
\* Error of one scenario never keeps the following ones from being executed
\* and recorded: once a run has left its scenario loop without an interrupt,
\* every registered scenario was invoked once, has one outcome, and the report
\* counts and classifies each of them.
C2_EveryScenarioOneResult ==
    /\ (/\ script = "playwright"
        /\ pwStarted # <<>>
        /\ NoInterrupt(pwHist)
        /\ pwPc \in {"exit", "write", "returned", "done", "raised"})
       => /\ pwStarted = tests
          /\ Len(pwHist) = Len(tests)
          /\ results.tests_run = Len(tests)
    /\ script = "playwright"
       => /\ \A i, j \in DOMAIN pwStarted : pwStarted[i] = pwStarted[j] => i = j
          /\ \A i \in DOMAIN pwHist : pwHist[i].name = pwStarted[i]
          /\ \A i \in Judged(pwHist) :
                (pwHist[i].res = "True") <=> (PwStatus(pwHist[i].name) = "PASS")
          /\ Len(results.test_details) = results.failures + results.errors

\* C2 witness: a run that ended after an Error of the first scenario and a
\* Fail of the last one.
C2_Witness ==
    /\ script = "playwright"
    /\ pwPc = "done"
    /\ Len(pwHist) = Len(tests)
    /\ PwStatus(tests[1]) = "ERROR"
    /\ PwStatus(tests[5]) = "FAIL"

\* C3: an acquired session is released exactly once per run, on every exit
\* path: when run_e2e_test has returned or raised, a driver that was created
\* has had quit() called exactly once; when the Playwright run_tests has left
\* its with-block, a browser that was launched has been torn down exactly once.
C3_SessionReleasedOnce ==
    /\ e2eQuitN <= 1
    /\ pwReleaseN <= 1
    /\ (script = "e2e" /\ e2ePc \in {"done", "raised"})
       => /\ driver # "live"
          /\ (driver = "quit") <=> (e2eQuitN = 1)
    /\ (script = "playwright" /\ pwPc \in {"write", "returned", "done", "raised"})
       => /\ pwBrowser # "open"
          /\ (pwBrowser = "closed") <=> (pwReleaseN = 1)

\* C3 witness: run_e2e_test raised the exception of the test flow and the
\* driver was quit.
C3_Witness ==
    /\ script = "e2e"
    /\ e2ePc = "raised"
    /\ e2eExc = "Exception"
    /\ driver = "quit"
    /\ e2eQuitN = 1

\* C4: a scenario step that raised an assertion failure is classified FAIL,
\* not ERROR.
C4_AssertionIsFail ==
    /\ \A i \in DOMAIN pwHist :
          pwHist[i].res = "AssertionError" => PwStatus(pwHist[i].name) = "FAIL"
    /\ \A i \in DOMAIN seHist :
          seHist[i].res = "AssertionError" => SeStatus(seHist[i].name) = "FAIL"

\* C5: a Playwright scenario step in which an error other than an assertion
\* failure or a wait timeout occurred (a driver or script fault) is classified
\* ERROR, never FAIL.
C5_FaultIsError ==
    \A i \in Judged(pwHist) :
        pwHist[i].cause = "fault" => PwStatus(pwHist[i].name) = "ERROR"

\* C6: a scenario in which a wait timed out (and no screenshot call failed) is
\* classified FAIL, not ERROR; the session stays open and the scenario loop
\* goes on.
C6_TimeoutIsFail ==
    /\ \A i \in Judged(pwHist) :
          (pwHist[i].cause = "timeout" /\ ~pwHist[i].shotFault)
          => /\ PwStatus(pwHist[i].name) = "FAIL"
             /\ (i < Len(tests) /\ Len(pwHist) = i)
                => (pwPc \in {"loop", "step"} /\ pwBrowser = "open")
    /\ \A i \in Judged(seHist) :
          (seHist[i].cause = "timeout" /\ ~seHist[i].shotFault)
          => /\ SeStatus(seHist[i].name) = "FAIL"
             /\ (i < Len(testMethods) /\ Len(seHist) = i)
                => (sePc \in {"tests", "test"} /\ seDriver = "live")

\* C7: in every emitted report, and in the running tally, success is true
\* exactly when failures = 0 and errors = 0.
C7_SuccessIffNoFailuresNoErrors ==
    /\ results.success <=> (results.failures = 0 /\ results.errors = 0)
    /\ \A i \in DOMAIN pwReport :
          pwReport[i].success <=> (pwReport[i].failures = 0 /\ pwReport[i].errors = 0)
    /\ \A i \in DOMAIN seReport :
          seReport[i].success <=> (seReport[i].failures = 0 /\ seReport[i].errors = 0)

\* C7 witness: a written Playwright report with a failure and an error.
C7_Witness ==
    /\ pwReport # <<>>
    /\ pwReport[1].failures >= 1
    /\ pwReport[1].errors >= 1
    /\ ~pwReport[1].success

\* C8: the tests_run of every emitted report equals the number of registered
\* scenarios.
C8_TestsRunIsRegistered ==
    /\ \A i \in DOMAIN pwReport : pwReport[i].tests_run = Len(tests)
    /\ \A i \in DOMAIN seReport : seReport[i].tests_run = Len(testMethods)

\* C9: scenarios are executed in registration order, one at a time: the
\* scenarios invoked so far are the first ones of the registration list, in
\* its order, and all but the last invoked one have returned.
C9_RegistrationOrder ==
    /\ Len(pwStarted) <= Len(tests)
    /\ \A i \in DOMAIN pwStarted : pwStarted[i] = tests[i]
    /\ Len(pwStarted) - Len(pwHist) \in {0, 1}
    /\ (Len(pwStarted) - Len(pwHist) = 1) <=> (pwPc = "step")
    /\ Len(seStarted) <= Len(testMethods)
    /\ \A i \in DOMAIN seStarted : seStarted[i] = testMethods[i]
    /\ Len(seStarted) - Len(seHist) \in {0, 1}
    /\ (Len(seStarted) - Len(seHist) = 1) <=> (sePc = "test")

\* C9 witness: the third registered Playwright scenario is running after the
\* first two returned; its name sorts before theirs.
C9_Witness ==
    /\ pwPc = "step"
    /\ Len(pwHist) = 2
    /\ pwStarted = <<tests[1], tests[2], tests[3]>>
    /\ AlphaRank(tests[3]) < AlphaRank(tests[1])

\* C10: stop() on a recorder that is 'inactive' (never started, or already
\* stopped) changes nothing: the state, the timer handle, the live timers and
\* the number of onstop notifications stay as they are; and stop() always
\* leaves the recorder 'inactive', so a second stop() in a row is such a no-op.
C10_StopInactiveNoOp ==
    [][/\ (lastOp'.op = "stop" /\ lastOp'.from = "inactive")
          => UNCHANGED <<state, timer, liveTimers, nextTimerId, onstartN, onstopN, dataN>>
       /\ (lastOp'.op = "stop") => state' = "inactive"]_vars

\* C10 witness: with an onstop handler installed, a stop() found the recorder
\* already stopped by an earlier stop() that fired onstop once.
C10_Witness ==
    /\ "onstop" \in handlers
    /\ lastOp = [op |-> "stop", from |-> "inactive"]
    /\ onstopN = 1
    /\ onstartN >= 1

\* C11: a stop() that finds the recorder 'recording' or 'paused' cancels the
\* interval timer the recorder holds (this.timer is cleared and no longer
\* live), leaves the recorder 'inactive', and calls an installed onstop handler
\* exactly once for that call; it starts no timer and fires nothing else.
C11_StopCancelsAndNotifiesOnce ==
    [][(lastOp'.op = "stop" /\ lastOp'.from = state /\ state \in {"recording", "paused"})
       => /\ state' = "inactive"
          /\ timer' = 0
          /\ \A t \in liveTimers' : t.id # timer
          /\ liveTimers' \subseteq liveTimers
          /\ onstopN' = IF "onstop" \in handlers THEN onstopN + 1 ELSE onstopN
          /\ UNCHANGED <<onstartN, dataN>>]_vars

\* C11 witness: a stop() found the recorder paused with its timer armed, the
\* timer is gone and onstop was called once.
C11_Witness ==
    /\ lastOp = [op |-> "stop", from |-> "paused"]
    /\ "onstop" \in handlers
    /\ onstopN = 1
    /\ nextTimerId = 1
    /\ liveTimers = {}
    /\ state = "inactive"

\* C12: once stop() has returned, no chunk is delivered to ondataavailable
\* until start() is called again. stop() always leaves this.timer null and
\* only start() sets it, so "stopped and not started again" is timer = 0.
C12_NoDataAfterStop ==
    [][(dataN' # dataN) => timer # 0]_vars

\* C13: start() on a recorder that is already 'recording' is a no-op: the
\* state, the timer handle and the live timers stay as they are and onstart
\* is not called again.
C13_StartWhileRecordingNoOp ==
    [][(lastOp'.op = "start" /\ lastOp'.from = "recording" /\ lastOp' # lastOp)
       => UNCHANGED <<state, timer, liveTimers, onstartN, onstopN, dataN>>]_vars

\* C14: the recorder's state changes only along the edges of its state
\* machine: start() from 'inactive' to 'recording', stop() from 'recording' or
\* 'paused' to 'inactive', pause() from 'recording' to 'paused', resume() from
\* 'paused' to 'recording'; pause() and resume() in any other state leave the
\* state as it is.
C14_OnlySpecifiedEdges ==
    [][(state' # state)
       => <<lastOp'.op, state, state'>> \in
             {<<"start", "inactive", "recording">>,
              <<"stop", "recording", "inactive">>,
              <<"stop", "paused", "inactive">>,
              <<"pause", "recording", "paused">>,
              <<"resume", "paused", "recording">>}]_vars

\* setUpClass has raised: the last driver set-up it tried failed
SeAcquireFailed ==
    /\ script \in UnittestScripts
    /\ seAttempts # <<>>
    /\ seAttempts[Len(seAttempts)].outcome = "fault"

\* async_playwright(), launch, new_context or new_page has raised: the
\* with-block was left with an error before the loop over tests was through
PwAcquireFailed ==
    /\ script = "playwright"
    /\ pwPc \notin {"start", "launch"}
    /\ \/ pwBrowser = "none"
       \/ (pwExc = "Error" /\ Len(pwHist) < Len(tests))

\* C15: setUpClass tries the driver set-ups in the order they are written, the
\* Node.js ChromeDriver first and webdriver_manager second, and stops at the
\* first that works: the second is tried only after the first failed, the
\* driver is set exactly when the last one tried worked, and a failing first
\* with a working second leaves a live driver and no error in the result.
C15_FirstSuccessInOrder ==
    (script = "selenium" /\ sePc # "start")
    => /\ Len(seAttempts) \in {1, 2}
       /\ seAttempts[1].strategy = "chromedriver"
       /\ (Len(seAttempts) = 2)
          => /\ seAttempts[1].outcome = "fault"
             /\ seAttempts[2].strategy = "webdriver_manager"
       /\ (seAttempts[Len(seAttempts)].outcome = "ok") <=> (seDriver # "unset")
       /\ (seAttempts[Len(seAttempts)].outcome = "ok" /\ seStarted = <<>>)
          => /\ sePc = "tests"
             /\ seDriver = "live"
             /\ seResult.errors = <<>>
             /\ seResult.failures = <<>>

\* C15 witness: the Node.js ChromeDriver failed, webdriver_manager worked, and
\* the first test method is running on the driver.
C15_Witness ==
    /\ script = "selenium"
    /\ Len(seAttempts) = 2
    /\ seAttempts[2].outcome = "ok"
    /\ seDriver = "live"
    /\ sePc = "test"
    /\ seResult.errors = <<>>

C17_NoStepAfterFailedAcquire ==
    /\ SeAcquireFailed
       => (seStarted = <<>> /\ seHist = <<>> /\ seResult.testsRun = 0)
    /\ PwAcquireFailed
       => (pwStarted = <<>> /\ pwHist = <<>> /\ results.tests_run = 0)

\* C17 witness: the remote run ended after webdriver.Remote raised.
C17_Witness ==
    /\ script = "remote"
    /\ SeAcquireFailed
    /\ sePc = "done"

\* C18: an error of the session acquisition leaves run_tests as an exception:
\* it is not recorded as an outcome, not counted in failures or errors, not
\* entered in test_details, and no report is written for the run.
C18_AcquireErrorPropagates ==
    /\ SeAcquireFailed
       => /\ seResult.errors = <<>>
          /\ seResult.failures = <<>>
          /\ seReport = <<>>
          /\ sePc \notin {"report", "returned", "done"}
    /\ PwAcquireFailed
       => /\ results.errors = 0
          /\ results.failures = 0
          /\ results.test_details = <<>>
          /\ pwReport = <<>>
          /\ pwPc \in {"exit", "raised"}

\* C19: every scenario that was executed and ended in a verdict or an
\* exception requested a screenshot, also when it raised before its assertions.
C19_ScreenshotOnEveryOutcome ==
    /\ \A i \in Judged(pwHist) : pwHist[i].shot
    /\ \A i \in Judged(seHist) : seHist[i].shot

\* C20: a failing screenshot call never changes the classification: a
\* scenario in which nothing but the screenshot call went wrong is PASS, and
\* one in which the awaited text timed out and the error screenshot failed is
\* FAIL as without the screenshot failure.
C20_ScreenshotFaultKeepsClass ==
    /\ \A i \in Judged(pwHist) :
          pwHist[i].shotFault
          => PwStatus(pwHist[i].name) = IF pwHist[i].cause = "none" THEN "PASS" ELSE "FAIL"
    /\ \A i \in Judged(seHist) :
          seHist[i].shotFault
          => SeStatus(seHist[i].name) = IF seHist[i].cause = "none" THEN "PASS" ELSE "FAIL"

\* the place of a name in a list that holds it once
IndexIn(seq, x) == CHOOSE i \in DOMAIN seq : seq[i] = x

\* the entries of dict d that belong to names of reg come in the order of reg
DetailsInOrder(d, reg) ==
    \A i, j \in DOMAIN d :
        (i < j /\ d[i].name \in Range(reg) /\ d[j].name \in Range(reg))
        => IndexIn(reg, d[i].name) < IndexIn(reg, d[j].name)

\* C21: the entries of test_details, in the order the dict iterates them,
\* follow the registration order of their scenarios, in the running tally and
\* in every written report, whatever the mix of FAIL and ERROR.
C21_DetailsInRegistrationOrder ==
    /\ DetailsInOrder(results.test_details, tests)
    /\ \A k \in DOMAIN pwReport : DetailsInOrder(pwReport[k].test_details, tests)
    /\ \A k \in DOMAIN seReport : DetailsInOrder(seReport[k].test_details, testMethods)

\* C22: a scenario whose step returned True (Playwright) or returned without
\* raising (unittest) has no entry in test_details, neither in the running
\* tally nor in a written report.
C22_NoPassInDetails ==
    /\ \A i \in Judged(pwHist) :
          pwHist[i].res = "True"
          => /\ pwHist[i].name \notin Keys(results.test_details)
             /\ \A k \in DOMAIN pwReport :
                   pwHist[i].name \notin Keys(pwReport[k].test_details)
    /\ \A i \in Judged(seHist) :
          seHist[i].res = "True"
          => \A k \in DOMAIN seReport :
                seHist[i].name \notin Keys(seReport[k].test_details)

\* C22 witness: a written Playwright report with a detail entry, of a run in
\* which the first scenario returned True.
C22_Witness ==
    /\ pwReport # <<>>
    /\ pwReport[1].test_details # <<>>
    /\ pwHist[1].res = "True"

\* C23: a script exits with 0 exactly when it wrote a report whose success is
\* true; a run that was not interrupted and did not succeed exits with 1; a
\* run that reaches exit() has written its report.
C23_ExitCodeFollowsSuccess ==
    /\ (pwExitCode # -1)
       => /\ (pwExitCode = 0) <=> (pwReport # <<>> /\ pwReport[1].success)
          /\ NoInterrupt(pwHist) => pwExitCode \in {0, 1}
    /\ (pwPc = "done") => (pwReport # <<>> /\ pwExitCode # -1)
    /\ (seExitCode # -1)
       => /\ (seExitCode = 0) <=> (seReport # <<>> /\ seReport[1].success)
          /\ NoInterrupt(seHist) => seExitCode \in {0, 1}
    /\ (sePc = "done") => (seReport # <<>> /\ seExitCode # -1)

\* C23 witness: the Playwright script exited with 1 after a report with
\* success false.
C23_Witness ==
    /\ pwPc = "done"
    /\ pwExitCode = 1
    /\ pwReport # <<>>
    /\ ~pwReport[1].success

C26_NoOverlap ==
    [][/\ (pwStarted' # pwStarted)
          => /\ Len(pwHist) = Len(pwStarted)
             /\ pwPc = "loop"
             /\ pwBrowser = "open"
       /\ (pwHist' # pwHist)
          => /\ Len(pwHist') = Len(pwStarted)
             /\ pwHist'[Len(pwHist')].name = pwStarted[Len(pwStarted)]]_vars

\* C26 witness: the second test function is running after the first returned
\* with its screenshot taken.
C26_Witness ==
    /\ pwPc = "step"
    /\ Len(pwStarted) = 2
    /\ Len(pwHist) = 1
    /\ pwHist[1].shot
    /\ pwHist[1].res = "AssertionError"

\* C25: a release function called when there is nothing to release (the
\* driver was never set or is already quit, the server slot is None) does not
\* raise and changes nothing: no further driver.quit(), no signal, the same
\* driver and slot. So two calls in a row have the effect of one.
C25_ReleaseIdempotent ==
    [][/\ (relLast'.fn = "tearDownClass" /\ relLast'.from # "live")
          => (~relLast'.raised /\ UNCHANGED <<relDriver, relQuitN>>)
       /\ (relLast'.fn = "stop_server" /\ relLast'.from = "None")
          => (~relLast'.raised /\ UNCHANGED <<SERVER_PROCESS, spawned, signalled>>)]_vars

\* C27: the mock recorder never outlives the session of run_e2e_test: once
\* driver.quit() has returned (the page is closed) or the run has ended with
\* the outcome of quit known, no timer of the mock fires and nothing of the
\* recorder changes, also when the flow ended without a stop(); and a run
\* that acquired a driver never ends with the page still open.
C27_MockDiesWithSession ==
    /\ [](script = "e2e" /\ e2ePc \in {"done", "raised"} => page # "open")
    /\ [][(script = "e2e" /\ page # "unknown"
               /\ (page = "closed" \/ e2ePc \in {"done", "raised"}))
          => UNCHANGED recVars]_vars

\* C27 witness: the run completed and the page is closed while the recorder
\* was left recording with a timer armed that no stop() cleared.
C27_Witness ==
    /\ script = "e2e"
    /\ e2ePc = "done"
    /\ page = "closed"
    /\ state = "recording"
    /\ liveTimers # {}
    /\ dataN >= 1

\* the condition itself raised during the call
WaitFaulted == wResult = "WebDriverException" \/ wCaught = "WebDriverException"

\* C28: a wait on a condition that becomes true at t < T returns, with the
\* value, before T and no later than t + pollInterval; it never waits out a
\* fixed interval.
C28_ReturnsAsSoonAsTrue ==
    (script = "wait" /\ wPc = "done" /\ ~WaitFaulted /\ wTrueAt # Never
         /\ wTrueAt < wTimeout)
    => /\ wResult = "True"
       /\ now < wTimeout
       /\ now <= wTrueAt + POLL_FREQUENCY

\* C29: a wait on a condition that never becomes true fails with a timeout
\* error at a time in [T, T + pollInterval).
C29_TimeoutErrorInWindow ==
    (script = "wait" /\ wPc = "done" /\ ~WaitFaulted /\ wTrueAt = Never)
    => /\ wResult = "TimeoutException"
       /\ now >= wTimeout
       /\ now < wTimeout + POLL_FREQUENCY

\* C30: an error the condition raises is swallowed and the condition is
\* evaluated again until the timeout: the wait never ends early with a
\* failure, never lets the condition's error through, and its timeout is
\* told apart from that error.
C30_ConditionErrorRetried ==
    (script = "wait" /\ wPc = "done" /\ wResult # "True")
    => /\ now >= wTimeout
       /\ wResult # "WebDriverException"
       /\ wCaught # "WebDriverException"

\* C31: a mock recorder started with an interval of 1000 ms (the timeslice
\* omitted, or 1000) and not stopped has run its data callback at least 4
\* times once 4500 ms have passed, one run per elapsed interval.
C31_FourEmissionsBy4500 ==
    (script = "timer" /\ tmPc = "armed" /\ tmArg \in {0, DefaultInterval}
         /\ tmNow - tmStart >= 4500)
    => /\ tmTicks >= 4
       /\ tmTicks >= (tmNow - tmStart - MaxLag * ClockStep) \div DefaultInterval

C31_Witness ==
    /\ script = "timer"
    /\ tmPc = "armed"
    /\ tmArg = 0
    /\ tmNow - tmStart = 4500
    /\ tmTicks = 4
    /\ tmHandler
    /\ tmData = 4

\* C32: the recorder's state and its timer agree after every sequence of
\* start/stop/pause/resume calls: a 'recording' recorder has a live interval
\* timer and an 'inactive' one has none.
C32_StateAndTimerAgree ==
    /\ (state = "recording") => liveTimers # {}
    /\ (state = "inactive") => liveTimers = {}

\* C33: onstop is never called more often than onstart: every "stopped"
\* notification follows a "started" one that no stop has matched yet.
C33_StopsNeverExceedStarts == onstopN <= onstartN

\* C34: a 'paused' recorder delivers no dataavailable event; chunks come
\* again only after resume().
C34_NoDataWhilePaused ==
    [][(state = "paused") => dataN' = dataN]_vars

\* C35: on every exit path of run_e2e_test (normal completion, an exception
\* in the flow, a failing error screenshot, a failing driver.quit()) the
\* server is stopped: once run_e2e_test has returned or raised, SERVER_PROCESS
\* is None and every process it spawned was signalled.
C35_ServerStoppedOnEveryExit ==
    (script = "e2e" /\ e2ePc \in {"done", "raised"})
    => /\ SERVER_PROCESS = 0
       /\ spawned \subseteq signalled

DetailsAgree(r, failed, errored) ==
    /\ Len(r.test_details) = r.failures + r.errors
    /\ Cardinality(Keys(r.test_details)) = Len(r.test_details)
    /\ Cardinality(failed) = r.failures
    /\ Cardinality(errored) = r.errors
    /\ \A i \in DOMAIN r.test_details :
          /\ (r.test_details[i].status = "FAIL") <=> (r.test_details[i].name \in failed)
          /\ (r.test_details[i].status = "ERROR") <=> (r.test_details[i].name \in errored)

\* C37: in every written report test_details has failures + errors entries,
\* and an entry is "FAIL" exactly when its scenario was counted in failures
\* and "ERROR" exactly when it was counted in errors.
C37_DetailsMatchCounters ==
    /\ \A k \in DOMAIN pwReport :
          DetailsAgree(pwReport[k],
              {pwHist[i].name : i \in {j \in DOMAIN pwHist : pwHist[j].res = "False"}},
              {pwHist[i].name : i \in {j \in DOMAIN pwHist :
                                          pwHist[j].res \notin {"True", "False"}}})
    /\ \A k \in DOMAIN seReport :
          DetailsAgree(seReport[k], Keys(seResult.failures), Keys(seResult.errors))

\* C37 witness: a written unittest report of a run with a failed test, a test
\* that raised another exception, and a tearDownClass that raised.
C37_Witness ==
    /\ script \in UnittestScripts
    /\ seReport # <<>>
    /\ seReport[1].failures >= 1
    /\ seReport[1].errors >= 2
    /\ classErrorName \in Keys(seReport[1].test_details)

\* C38: element_exists never raises. It returns True when the wait located
\* the element and False both when the wait timed out and when it raised any
\* other error, so its caller sees the same False for a timeout and for a
\* driver fault; in test_01 of both unittest classes either one shows only
\* as the AssertionError of the assertTrue that follows the screenshot, and
\* the test is reported the same way ("FAIL").
C38_ElementExistsNeverRaises ==
    /\ (script = "wait" /\ wFn = "element_exists" /\ wPc = "done")
       => /\ wResult \in {"True", "False"}
          /\ (wResult = "True") => (wCaught = "none" /\ TrueBy(now))
          /\ (wResult = "False")
             <=> (wCaught \in {"TimeoutException", "WebDriverException"})
    /\ \A i \in Judged(seHist) :
          (/\ seHist[i].name = "test_01_teacher_interface"
           /\ seHist[i].shot
           /\ seHist[i].cause \in {"timeout", "fault"})
          => /\ seHist[i].res = "AssertionError"
             /\ SeStatus(seHist[i].name) = "FAIL"

\* C38 witness: element_exists returned False after the condition raised a
\* driver error on a later evaluation, not after a timeout.
C38_Witness ==
    /\ script = "wait"
    /\ wFn = "element_exists"
    /\ wPc = "done"
    /\ wResult = "False"
    /\ wCaught = "WebDriverException"
    /\ wPolls >= 2
    /\ now < wTimeout

====
